---- MODULE Spec2Model ----
(***************************************************************************)
(* Payment lifecycle of the LMS backend: the HTTP views of                 *)
(* materials/views.py, PaymentCreateSerializer.validate,                   *)
(* PaymentService and StripeService, run by request-parallel workers       *)
(* against one Payment table and one external processor (Stripe).          *)
(*                                                                         *)
(* Every database query, every save() and every remote call is one atomic  *)
(* step; a worker keeps an in-memory copy of the row it loaded and save()  *)
(* writes that whole copy back.                                            *)
(***************************************************************************)
EXTENDS Integers, Sequences, FiniteSets, TLC

\* ------------------------------------------------------------------ bounds
\* Largest number of rows the Payment table holds while requests run
\* concurrently.
MaxPayments == 1

\* Largest amount whose conversion to kopecks is examined, in thousandths of
\* a rouble (20.000 rub).
MaxAmount == 20000

\* Largest number of lessons.
MaxLessons == 2

\* Largest age of a login, in days, that is told apart.
MaxAge == 31

\* Concurrent request workers.
Procs == {1, 2}

\* Authenticated principals.
Users == {"u1", "u2"}

Courses == {"c1", "c2"}

\* Course.owner of the two courses: c1 belongs to u1, c2 to u2.
Owner == [c \in Courses |-> IF c = "c1" THEN "u1" ELSE "u2"]

\* Amounts of a request, in thousandths of a rouble (19.99 rub).
Amounts == {19990}

\* str(e) of a stripe.error.StripeError.
StripeErrors == {"account restricted"}

\* ----------------------------------------------------------------- values
PENDING == "pending"
PAID == "paid"
FAILED == "failed"
PaymentStatus == {PENDING, PAID, FAILED}

\* payment_status values of a checkout session.
RemoteStatuses == {"unpaid", "paid", "no_payment_required"}

\* The processor holds no such checkout session.
NoSession == "none"

\* An absent (falsy) identifier or URL: None or the empty string.
Absent == << >>

\* The anonymous principal of the views that have permission_classes = [].
Anonymous == "anonymous"

\* No request input of that kind.
NoArg == "none"

VARIABLES
    payments,   \* the Payment table: row id -> persisted row
    stripe,     \* the processor: payment_status of each checkout session,
                \* a sequence with one place per session it has room for
    proc,       \* each worker: the request it runs, its position and locals
    response    \* the HTTP response the last step sent, if it sent one

\* The tables of the other applications of the backend.
VARIABLES
    subscriptions,  \* the Subscription table: a sequence of rows
    lessons,        \* the Lesson table: lesson id -> the row, if there is one
    moderators,     \* the users in the group of moderators
    accounts,       \* the User table: user -> the row
    task_result     \* what the last run of block_inactive_users returned

\* The state the payment requests leave alone.
others == <<subscriptions, lessons, moderators, accounts, task_result>>

vars == <<payments, stripe, proc, response, others>>

\* The fields of a Payment that are unset until assigned: the processor's
\* identifiers and the checkout URL.
PaymentDefaults ==
    [stripe_product_id |-> Absent, stripe_price_id |-> Absent,
     stripe_session_id |-> Absent, stripe_payment_intent_id |-> Absent,
     payment_url |-> Absent]

\* NewPayment inserting the row already PAID.
NewPayment_paid(user, course, amount, payment_method) ==
    [user |-> user, course |-> course, amount |-> amount,
     payment_method |-> payment_method, status |-> PAID] @@ PaymentDefaults

\* Payment.objects.create(user, course, amount, payment_method, status):
\* the row as inserted; the fields not given keep their defaults.
NewPayment(user, course, amount, payment_method) ==
    [user |-> user, course |-> course, amount |-> amount,
     payment_method |-> payment_method, status |-> PENDING] @@ PaymentDefaults

\* ------------------------------------------------------- processor client
\* A failure result of any StripeService method.
StripeFailure(e) ==
    [success |-> FALSE, error |-> e, id |-> Absent, url |-> Absent,
     unit_amount |-> 0, payment_status |-> "", payment_intent |-> Absent]

StripeSuccess(id, url, unit, st, intent) ==
    [success |-> TRUE, error |-> "", id |-> id, url |-> url,
     unit_amount |-> unit, payment_status |-> st, payment_intent |-> intent]

AllFailures == {StripeFailure(e) : e \in StripeErrors}

\* amount_in_kopecks rounding half up instead of truncating.
amount_in_kopecks_rounded(amount) == (amount * 100 + 500) \div 1000

\* int(amount * 100): roubles to kopecks, the amount being in thousandths.
amount_in_kopecks(amount) == (amount * 100) \div 1000

\* The processor's identifiers are opaque and unique. The objects it
\* creates in the request for payment n are written <<"prod", n>>,
\* <<"price", n>> and <<"cs", n>>: one request creates at most one of each.
\*
\* StripeService.create_product: the results the call can give.
create_product(name, n) ==
    {StripeSuccess(<<"prod", n>>, Absent, 0, "", Absent)} \cup AllFailures

\* StripeService.create_price.
create_price(amount, product_id, n) ==
    {StripeSuccess(<<"price", n>>, Absent, amount_in_kopecks(amount), "", Absent)}
        \cup AllFailures

\* StripeService.create_checkout_session: a new session is unpaid, or needs
\* no payment.
create_checkout_session(price_id, n) ==
    {StripeSuccess(<<"cs", n>>, <<"url", n>>, 0, st, Absent) :
        st \in {"unpaid", "no_payment_required"}}
        \cup AllFailures

\* StripeService.retrieve_session: the session's payment_status and its
\* payment_intent, which is null or, once paid, may be set.
retrieve_session(session_id) ==
    LET st == stripe[session_id[2]]
    IN {StripeSuccess(session_id, Absent, 0, st, pi) :
           pi \in IF st = "paid" THEN {Absent, <<"pi", session_id[2]>>}
                                ELSE {Absent}}
       \cup AllFailures

\* ---------------------------------------------------------------- workers
NoResult == StripeFailure("")

\* No response: the step answered no request.
NoResponse ==
    [code |-> 0, request |-> <<>>, success |-> FALSE, error |-> <<>>,
     payment |-> <<>>, payment_url |-> Absent, stripe_status |-> ""]

IdleProc ==
    [op |-> "idle", pc |-> "idle", user |-> Anonymous, course |-> NoArg,
     amount |-> 0, payment_id |-> 0, session_id |-> Absent,
     pid |-> 0, payment |-> <<>>, result |-> NoResult, calls |-> <<>>]

\* A worker takes a new request when it runs none; the workers being
\* interchangeable, the request goes to the first free one.
Free(p) ==
    /\ proc[p].pc = "idle"
    /\ \A q \in Procs : q < p => proc[q].pc # "idle"

\* The response to the request `req` (the worker's record as its last step
\* begins, the object as loaded or last saved): its status code and body.
Response(req, code) ==
    [NoResponse EXCEPT !.code = code, !.request = <<req>>]

\* A failed request's response.
ErrorResponse(req, code, error) ==
    [Response(req, code) EXCEPT !.error = error]

\* Save losing the amount of the row.
Save_amount_lost(pid, row) ==
    [payments EXCEPT ![pid] = [row EXCEPT !.amount = 0]]

\* Model.save(): the whole in-memory row is written back over the stored one.
Save(pid, row) == [payments EXCEPT ![pid] = row]

\* The in-memory Payment object of worker p.
Obj(p) == proc[p].payment[1]

\* The number of rows the table holds at most: one per session the
\* processor has room for.
Capacity == Len(stripe)

\* Workers that passed validation and have not inserted their row yet.
Inserting == {q \in Procs : proc[q].pc = "insert"}

\* existing_payment looking for a pending payment instead of a paid one.
existing_payment_pending(user, course) ==
    \E i \in 1..Len(payments) :
        /\ payments[i].user = user
        /\ payments[i].course = course
        /\ payments[i].status = PENDING

\* Payment.objects.filter(user, course, status=PAID).exists()
existing_payment(user, course) ==
    \E i \in 1..Len(payments) :
        /\ payments[i].user = user
        /\ payments[i].course = course
        /\ payments[i].status = PAID

\* validate with the check of the course's owner left out.
validate_owner_unchecked(user, course) ==
    IF existing_payment(user, course) THEN "already paid" ELSE ""

\* PaymentCreateSerializer.validate: "" when the data is valid, else the
\* message of the ValidationError.
validate(user, course) ==
    IF Owner[course] = user THEN "own course"
    ELSE IF existing_payment(user, course) THEN "already paid"
    ELSE ""

\* A new request of worker p.
Request(op, user) == [IdleProc EXCEPT !.op = op, !.user = user]

\* The step of worker p ends its request with the response `resp`.
Finish(p, resp) ==
    /\ proc' = [proc EXCEPT ![p] = IdleProc]
    /\ response' = resp
    /\ UNCHANGED others

\* The step of worker p leaves it at `req`, the request not yet answered.
Continue(p, req) ==
    /\ proc' = [proc EXCEPT ![p] = req]
    /\ response' = NoResponse
    /\ UNCHANGED others

\* ------------------------------------------------- POST /payments/ (create)
\* PaymentListCreateView.post up to serializer.is_valid(raise_exception=True):
\* a ValidationError is answered 400.
PostPayment(p, user, course, amount) ==
    /\ Free(p)
    /\ LET req == [Request("create", user) EXCEPT !.course = course,
                                                   !.amount = amount]
           msg == validate(user, course)
       IN IF msg # ""
          THEN Finish(p, ErrorResponse(req, 400, <<"validation", msg>>))
          ELSE /\ Len(payments) + Cardinality(Inserting) < Capacity
               /\ Continue(p, [req EXCEPT !.pc = "insert"])
    /\ UNCHANGED <<payments, stripe>>

\* PaymentService.create_payment, step 1: the row is inserted, pending.
InsertPayment(p) ==
    /\ proc[p].pc = "insert"
    /\ LET row == NewPayment(proc[p].user, proc[p].course, proc[p].amount, "card")
       IN /\ payments' = Append(payments, row)
          /\ Continue(p, [proc[p] EXCEPT !.pid = Len(payments) + 1,
                                         !.payment = <<row>>,
                                         !.pc = "create_product"])
    /\ UNCHANGED stripe

\* The worker's record after a remote call `name` returned r.
Called(p, name, r, pc) ==
    [proc[p] EXCEPT !.result = r, !.calls = Append(@, name), !.pc = pc]

\* The remote call StripeService.create_product.
CallCreateProduct(p) ==
    /\ proc[p].pc = "create_product"
    /\ \E r \in create_product(proc[p].course, proc[p].pid) :
        Continue(p, Called(p, "create_product", r, "product_result"))
    /\ UNCHANGED <<payments, stripe>>

\* FailPayment with the remote ids obtained so far rolled back.
FailPayment_rollback(p, what) ==
    LET row == [Obj(p) EXCEPT !.status = FAILED,
                              !.stripe_product_id = Absent,
                              !.stripe_price_id = Absent]
    IN /\ payments' = Save(proc[p].pid, row)
       /\ Finish(p, ErrorResponse(proc[p], 400, <<what, proc[p].result.error>>))

\* FailPayment returning the error with the status left as it was.
FailPayment_status_kept(p, what) ==
    /\ payments' = Save(proc[p].pid, Obj(p))
    /\ Finish(p, ErrorResponse(proc[p], 400, <<what, proc[p].result.error>>))

\* A remote step of create_payment failed: status FAILED, save, return the
\* error; the view answers 400.
FailPayment(p, what) ==
    LET row == [Obj(p) EXCEPT !.status = FAILED]
    IN /\ payments' = Save(proc[p].pid, row)
       /\ Finish(p, ErrorResponse(proc[p], 400, <<what, proc[p].result.error>>))

\* StoreProduct with the product id forgotten: the row is saved as it was.
StoreProduct_forgotten(p) ==
    /\ payments' = Save(proc[p].pid, Obj(p))
    /\ Continue(p, [proc[p] EXCEPT !.pc = "create_price"])

\* The product id is stored on the object and saved.
StoreProduct(p) ==
    LET row == [Obj(p) EXCEPT !.stripe_product_id = proc[p].result.id]
    IN /\ payments' = Save(proc[p].pid, row)
       /\ Continue(p, [proc[p] EXCEPT !.payment = <<row>>, !.pc = "create_price"])

\* ProductResult going on to the price although the product call failed.
ProductResult_failure_ignored(p) ==
    /\ proc[p].pc = "product_result"
    /\ IF ~proc[p].result.success
       THEN /\ payments' = payments
            /\ Continue(p, [proc[p] EXCEPT !.pc = "create_price"])
       ELSE StoreProduct(p)
    /\ UNCHANGED stripe

\* create_payment after create_product returned.
ProductResult(p) ==
    /\ proc[p].pc = "product_result"
    /\ IF ~proc[p].result.success
       THEN FailPayment(p, "product")
       ELSE StoreProduct(p)
    /\ UNCHANGED stripe

\* The remote call StripeService.create_price, with the product id of the
\* product result.
CallCreatePrice(p) ==
    /\ proc[p].pc = "create_price"
    /\ \E r \in create_price(proc[p].amount, proc[p].result.id, proc[p].pid) :
        Continue(p, Called(p, "create_price", r, "price_result"))
    /\ UNCHANGED <<payments, stripe>>

\* StorePrice with the save left out: the id stays on the object only.
StorePrice_unsaved(p) ==
    LET row == [Obj(p) EXCEPT !.stripe_price_id = proc[p].result.id]
    IN /\ payments' = payments
       /\ Continue(p, [proc[p] EXCEPT !.payment = <<row>>, !.pc = "create_session"])

\* The price id is stored on the object and saved.
StorePrice(p) ==
    LET row == [Obj(p) EXCEPT !.stripe_price_id = proc[p].result.id]
    IN /\ payments' = Save(proc[p].pid, row)
       /\ Continue(p, [proc[p] EXCEPT !.payment = <<row>>, !.pc = "create_session"])

\* create_payment after create_price returned.
PriceResult(p) ==
    /\ proc[p].pc = "price_result"
    /\ IF ~proc[p].result.success
       THEN FailPayment(p, "price")
       ELSE StorePrice(p)
    /\ UNCHANGED stripe

\* The remote call StripeService.create_checkout_session, with the price id
\* of the price result.
CallCreateCheckoutSession(p) ==
    /\ proc[p].pc = "create_session"
    /\ \E r \in create_checkout_session(proc[p].result.id, proc[p].pid) :
        /\ Continue(p, Called(p, "create_checkout_session", r, "session_result"))
        /\ stripe' = IF r.success
                     THEN [stripe EXCEPT ![proc[p].pid] = r.payment_status]
                     ELSE stripe
    /\ UNCHANGED payments

\* StoreSession with the checkout URL returned but not stored on the row.
StoreSession_url_not_stored(p) ==
    LET row == [Obj(p) EXCEPT !.stripe_session_id = proc[p].result.id]
    IN /\ payments' = Save(proc[p].pid, row)
       /\ Finish(p, [Response(proc[p], 201) EXCEPT
                        !.success = TRUE,
                        !.payment = <<row>>,
                        !.payment_url = proc[p].result.url])

\* The session id and the checkout URL are stored and saved; create_payment
\* returns success and the view answers 201 with the payment and the URL.
StoreSession(p) ==
    LET row == [Obj(p) EXCEPT !.stripe_session_id = proc[p].result.id,
                              !.payment_url = proc[p].result.url]
    IN /\ payments' = Save(proc[p].pid, row)
       /\ Finish(p, [Response(proc[p], 201) EXCEPT
                        !.success = TRUE,
                        !.payment = <<row>>,
                        !.payment_url = proc[p].result.url])

\* create_payment after create_checkout_session returned.
SessionResult(p) ==
    /\ proc[p].pc = "session_result"
    /\ IF ~proc[p].result.success
       THEN FailPayment(p, "session")
       ELSE StoreSession(p)
    /\ UNCHANGED stripe

\* --------------------------------- GET /payments/<payment_id>/status/
\* GetPaymentStatus looking the payment up by its id alone.
GetPaymentStatus_any_user(p, user, payment_id) ==
    /\ Free(p)
    /\ LET req == [Request("status", user) EXCEPT !.payment_id = payment_id]
           found == payment_id \in 1..Len(payments)
       IN IF found
          THEN Continue(p, [req EXCEPT !.pc = "check"])
          ELSE Finish(p, ErrorResponse(req, 404, <<"not found", "">>))
    /\ UNCHANGED <<payments, stripe>>

\* PaymentStatusCheckView.get: Payment.objects.get(id=payment_id, user=user),
\* 404 when there is no such row of that user.
GetPaymentStatus(p, user, payment_id) ==
    /\ Free(p)
    /\ LET req == [Request("status", user) EXCEPT !.payment_id = payment_id]
           found == /\ payment_id \in 1..Len(payments)
                    /\ payments[payment_id].user = user
       IN IF found
          THEN Continue(p, [req EXCEPT !.pc = "check"])
          ELSE Finish(p, ErrorResponse(req, 404, <<"not found", "">>))
    /\ UNCHANGED <<payments, stripe>>

\* check_payment_status marking a payment without a session id FAILED.
check_payment_status_no_session_failed(p) ==
    /\ proc[p].pc = "check"
    /\ LET id == proc[p].payment_id
       IN IF id \notin 1..Len(payments)
          THEN /\ Finish(p, ErrorResponse(proc[p], 400, <<"not found", "">>))
               /\ payments' = payments
          ELSE LET req == [proc[p] EXCEPT !.pid = id, !.payment = <<payments[id]>>]
               IN IF payments[id].stripe_session_id = Absent
                  THEN /\ Finish(p, ErrorResponse(req, 400, <<"no session", "">>))
                       /\ payments' = Save(id, [payments[id] EXCEPT !.status = FAILED])
                  ELSE /\ Continue(p, [req EXCEPT !.pc = "retrieve_session"])
                       /\ payments' = payments
    /\ UNCHANGED stripe

\* check_payment_status putting a payment without a session id back to
\* PENDING.
check_payment_status_no_session_pending(p) ==
    /\ proc[p].pc = "check"
    /\ LET id == proc[p].payment_id
       IN IF id \notin 1..Len(payments)
          THEN /\ Finish(p, ErrorResponse(proc[p], 400, <<"not found", "">>))
               /\ payments' = payments
          ELSE LET req == [proc[p] EXCEPT !.pid = id, !.payment = <<payments[id]>>]
               IN IF payments[id].stripe_session_id = Absent
                  THEN /\ Finish(p, ErrorResponse(req, 400, <<"no session", "">>))
                       /\ payments' = Save(id, [payments[id] EXCEPT !.status = PENDING])
                  ELSE /\ Continue(p, [req EXCEPT !.pc = "retrieve_session"])
                       /\ payments' = payments
    /\ UNCHANGED stripe

\* PaymentService.check_payment_status up to the remote call: the row is
\* loaded by id; no row or no session id is an error, which the view
\* answers 400.
check_payment_status(p) ==
    /\ proc[p].pc = "check"
    /\ LET id == proc[p].payment_id
       IN IF id \notin 1..Len(payments)
          THEN Finish(p, ErrorResponse(proc[p], 400, <<"not found", "">>))
          ELSE LET req == [proc[p] EXCEPT !.pid = id, !.payment = <<payments[id]>>]
               IN IF payments[id].stripe_session_id = Absent
                  THEN Finish(p, ErrorResponse(req, 400, <<"no session", "">>))
                  ELSE Continue(p, [req EXCEPT !.pc = "retrieve_session"])
    /\ UNCHANGED <<payments, stripe>>

\* The remote call StripeService.retrieve_session; its failure is returned
\* as the error and nothing is saved.
CallRetrieveSession(p) ==
    /\ proc[p].pc = "retrieve_session"
    /\ \E r \in retrieve_session(Obj(p).stripe_session_id) :
        IF r.success
        THEN Continue(p, Called(p, "retrieve_session", r, "update_status"))
        ELSE Finish(p, ErrorResponse(
                 Called(p, "retrieve_session", r, "retrieve_session"),
                 400, <<"retrieve", r.error>>))
    /\ UNCHANGED <<payments, stripe>>

\* local_status with an unknown remote status left pending.
local_status_lenient(payment_status) ==
    IF payment_status = "paid" THEN PAID ELSE PENDING

\* The local status the remote payment_status maps to.
local_status(payment_status) ==
    IF payment_status = "paid" THEN PAID
    ELSE IF payment_status = "unpaid" THEN PENDING
    ELSE FAILED

\* updated_payment with an unpaid session taken for a failed one.
updated_payment_unpaid_failed(row, result) ==
    [row EXCEPT
        !.status = IF result.payment_status = "paid" THEN PAID ELSE FAILED,
        !.stripe_payment_intent_id =
            IF result.payment_status = "paid" /\ result.payment_intent # Absent
            THEN result.payment_intent
            ELSE @]

\* updated_payment taking a session reported paid on a payment already PAID
\* for a failure.
updated_payment_paid_twice_failed(row, result) ==
    [row EXCEPT
        !.status = IF result.payment_status = "paid"
                   THEN (IF row.status = PAID THEN FAILED ELSE PAID)
                   ELSE local_status(result.payment_status),
        !.stripe_payment_intent_id =
            IF result.payment_status = "paid" /\ result.payment_intent # Absent
            THEN result.payment_intent
            ELSE @]

\* updated_payment leaving a payment that is PAID as it is.
updated_payment_paid_kept(row, result) ==
    IF row.status = PAID
    THEN row
    ELSE [row EXCEPT
             !.status = local_status(result.payment_status),
             !.stripe_payment_intent_id =
                 IF result.payment_status = "paid" /\ result.payment_intent # Absent
                 THEN result.payment_intent
                 ELSE @]

\* The in-memory object after check_payment_status applied the session
\* result to it.
updated_payment(row, result) ==
    [row EXCEPT
        !.status = local_status(result.payment_status),
        !.stripe_payment_intent_id =
            IF result.payment_status = "paid" /\ result.payment_intent # Absent
            THEN result.payment_intent
            ELSE @]

\* check_payment_status after a successful retrieve: the status is set from
\* payment_status, the row saved, and the view answers 200.
UpdateStatus(p) ==
    /\ proc[p].pc = "update_status"
    /\ LET row == updated_payment(Obj(p), proc[p].result)
       IN /\ payments' = Save(proc[p].pid, row)
          /\ Finish(p, [Response(proc[p], 200) EXCEPT
                           !.success = TRUE,
                           !.payment = <<row>>,
                           !.stripe_status = proc[p].result.payment_status])
    /\ UNCHANGED stripe

\* ------------------------------- GET /payments/success/?session_id=...
\* by_session falling back to the first row when no row has the session id.
by_session_or_first(session_id) ==
    LET ids == {i \in 1..Len(payments) : payments[i].stripe_session_id = session_id}
    IN IF ids = {} THEN {i \in 1..Len(payments) : i = 1} ELSE ids

\* Rows Payment.objects.get(stripe_session_id=session_id) matches.
by_session(session_id) ==
    {i \in 1..Len(payments) : payments[i].stripe_session_id = session_id}

\* PaymentSuccessView.get up to the lookup: 400 without a session id, 404
\* when no row has it (an unhandled MultipleObjectsReturned, 500, when
\* several have).
GetSuccess(p, session_id) ==
    /\ Free(p)
    /\ LET req == [Request("success", Anonymous) EXCEPT !.session_id = session_id]
           ids == by_session(session_id)
       IN IF session_id = Absent
          THEN Finish(p, ErrorResponse(req, 400, <<"no session id", "">>))
          ELSE IF ids = {}
          THEN Finish(p, ErrorResponse(req, 404, <<"not found", "">>))
          ELSE IF Cardinality(ids) > 1
          THEN Finish(p, ErrorResponse(req, 500, <<"multiple", "">>))
          ELSE LET id == CHOOSE i \in ids : TRUE
               IN Continue(p, [req EXCEPT !.pid = id,
                                          !.payment = <<payments[id]>>,
                                          !.pc = "mark_paid"])
    /\ UNCHANGED <<payments, stripe>>

\* MarkPaid marking only a payment that is still pending.
MarkPaid_if_pending(p) ==
    /\ proc[p].pc = "mark_paid"
    /\ LET row == IF Obj(p).status = PENDING
                  THEN [Obj(p) EXCEPT !.status = PAID]
                  ELSE Obj(p)
       IN /\ payments' = Save(proc[p].pid, row)
          /\ Finish(p, [Response(proc[p], 200) EXCEPT !.success = TRUE])
    /\ UNCHANGED stripe

\* PaymentSuccessView.get after the lookup: status PAID, save, 200.
MarkPaid(p) ==
    /\ proc[p].pc = "mark_paid"
    /\ LET row == [Obj(p) EXCEPT !.status = PAID]
       IN /\ payments' = Save(proc[p].pid, row)
          /\ Finish(p, [Response(proc[p], 200) EXCEPT !.success = TRUE])
    /\ UNCHANGED stripe

\* ---------------------------------------------- GET /payments/cancel/
\* GetCancel marking every pending payment FAILED.
GetCancel_fails_pending(p) ==
    /\ Free(p)
    /\ Finish(p, [Response(Request("cancel", Anonymous), 200) EXCEPT
                     !.success = TRUE])
    /\ payments' = [i \in 1..Len(payments) |->
                       IF payments[i].status = PENDING
                       THEN [payments[i] EXCEPT !.status = FAILED]
                       ELSE payments[i]]
    /\ UNCHANGED stripe

\* PaymentCancelView.get: a message, nothing else.
GetCancel(p) ==
    /\ Free(p)
    /\ Finish(p, [Response(Request("cancel", Anonymous), 200) EXCEPT
                     !.success = TRUE])
    /\ UNCHANGED <<payments, stripe>>

\* ------------------------------------------------------------ processor
\* The customer pays an unpaid checkout session at the processor.
CustomerPays(n) ==
    /\ stripe[n] = "unpaid"
    /\ stripe' = [stripe EXCEPT ![n] = "paid"]
    /\ response' = NoResponse
    /\ UNCHANGED <<payments, proc, others>>

\* ------------------------------------------------------ the other tables
\* Lesson ids a request may name.
LessonIds == 1..MaxLessons

\* No lesson of that id.
NoLesson == << >>

\* last_login of a user who never logged in (NULL).
Never == -1

\* A user as registered: active, not logged in yet.
NewAccount(is_superuser) ==
    [is_active |-> TRUE, is_superuser |-> is_superuser, last_login |-> Never]

\* block_inactive_users has not run.
NoTaskResult == [status |-> "none", blocked_count |-> 0, blocked_users |-> {}]

\* The other tables after deployment: no subscription, no lesson, no
\* moderator, the users registered and none of them a superuser.
OthersInit ==
    /\ subscriptions = << >>
    /\ lessons = [l \in LessonIds |-> NoLesson]
    /\ moderators = {}
    /\ accounts = [u \in Users |-> NewAccount(FALSE)]
    /\ task_result = NoTaskResult

\* Payment ids a status request may name: those of the table and one more.
PaymentIds == 1..(Capacity + 1)

\* Session ids a success redirect may carry: none, issued ones or unknown.
SessionIds == {Absent} \cup {<<"cs", n>> : n \in 1..Capacity}

\* The state after deployment, the table having room for `rows` rows.
InitOf(rows) ==
    /\ payments = << >>
    /\ stripe = [n \in 1..rows |-> NoSession]
    /\ proc = [p \in Procs |-> IdleProc]
    /\ response = NoResponse
    /\ OthersInit

Init == InitOf(MaxPayments)

Next ==
    \/ \E p \in Procs, u \in Users, c \in Courses, a \in Amounts :
           PostPayment(p, u, c, a)
    \/ \E p \in Procs : InsertPayment(p)
    \/ \E p \in Procs : CallCreateProduct(p)
    \/ \E p \in Procs : ProductResult(p)
    \/ \E p \in Procs : CallCreatePrice(p)
    \/ \E p \in Procs : PriceResult(p)
    \/ \E p \in Procs : CallCreateCheckoutSession(p)
    \/ \E p \in Procs : SessionResult(p)
    \/ \E p \in Procs, u \in Users, i \in PaymentIds : GetPaymentStatus(p, u, i)
    \/ \E p \in Procs : check_payment_status(p)
    \/ \E p \in Procs : CallRetrieveSession(p)
    \/ \E p \in Procs : UpdateStatus(p)
    \/ \E p \in Procs, s \in SessionIds : GetSuccess(p, s)
    \/ \E p \in Procs : MarkPaid(p)
    \/ \E p \in Procs : GetCancel(p)
    \/ \E n \in 1..Capacity : CustomerPays(n)

Spec == Init /\ [][Next]_vars

\* ------------------------------------------------- one request at a time
\* Requests served one after the other by a single worker, the table
\* holding one row more.
SeqInit == InitOf(MaxPayments + 1)

SeqNext ==
    \/ \E u \in Users, c \in Courses, a \in Amounts : PostPayment(1, u, c, a)
    \/ InsertPayment(1)
    \/ CallCreateProduct(1)
    \/ ProductResult(1)
    \/ CallCreatePrice(1)
    \/ PriceResult(1)
    \/ CallCreateCheckoutSession(1)
    \/ SessionResult(1)
    \/ \E u \in Users, i \in PaymentIds : GetPaymentStatus(1, u, i)
    \/ check_payment_status(1)
    \/ CallRetrieveSession(1)
    \/ UpdateStatus(1)
    \/ \E s \in SessionIds : GetSuccess(1, s)
    \/ MarkPaid(1)
    \/ GetCancel(1)
    \/ \E n \in 1..Capacity : CustomerPays(n)

SeqSpec == SeqInit /\ [][SeqNext]_vars

\* ------------------------------------------- concurrent payment creation
\* The workers serving POST /payments/ only, the table holding one row
\* more: two creations can be in flight at once.
CreateInit == InitOf(MaxPayments + 1)

CreateNext ==
    \/ \E p \in Procs, u \in Users, c \in Courses, a \in Amounts :
           PostPayment(p, u, c, a)
    \/ \E p \in Procs : InsertPayment(p)
    \/ \E p \in Procs : CallCreateProduct(p)
    \/ \E p \in Procs : ProductResult(p)
    \/ \E p \in Procs : CallCreatePrice(p)
    \/ \E p \in Procs : PriceResult(p)
    \/ \E p \in Procs : CallCreateCheckoutSession(p)
    \/ \E p \in Procs : SessionResult(p)

CreateSpec == CreateInit /\ [][CreateNext]_vars

\* ------------------------------------------------- the price of a payment
\* Amounts a price is created for: every fixed-point amount up to MaxAmount.
PriceAmounts == 0..MaxAmount

\* create_payment of u2 for c1 about to call create_price, the row inserted
\* and its product stored, for every amount.
PriceInit ==
    \E a \in PriceAmounts :
        LET product == StripeSuccess(<<"prod", 1>>, Absent, 0, "", Absent)
            row == [NewPayment("u2", "c1", a, "card") EXCEPT
                       !.stripe_product_id = product.id]
        IN /\ payments = <<row>>
           /\ stripe = [n \in 1..MaxPayments |-> NoSession]
           /\ proc = [p \in Procs |->
                         IF p = 1
                         THEN [Request("create", "u2") EXCEPT
                                  !.course = "c1", !.amount = a, !.pid = 1,
                                  !.payment = <<row>>, !.result = product,
                                  !.calls = <<"create_product">>,
                                  !.pc = "create_price"]
                         ELSE IdleProc]
           /\ response = NoResponse
           /\ OthersInit

PriceNext ==
    \/ CallCreatePrice(1)
    \/ PriceResult(1)

PriceSpec == PriceInit /\ [][PriceNext]_vars

\* Concurrent payment creation where every worker that has a step to take
\* takes it at last: the view runs to its return and every remote call
\* returns.
CreateFairness ==
    \A p \in Procs :
        /\ WF_vars(InsertPayment(p))
        /\ WF_vars(CallCreateProduct(p))
        /\ WF_vars(ProductResult(p))
        /\ WF_vars(CallCreatePrice(p))
        /\ WF_vars(PriceResult(p))
        /\ WF_vars(CallCreateCheckoutSession(p))
        /\ WF_vars(SessionResult(p))

CreateLiveSpec == CreateInit /\ [][CreateNext]_vars /\ CreateFairness

\* --------------------------------------------- POST, DELETE /subscriptions/
\* An id that is the id of no course.
NoCourse == "c0"

\* course_id of a subscription request: missing, a course, or no course.
CourseArgs == {NoArg} \cup Courses \cup {NoCourse}

\* Subscription.objects.filter(user=user, course=course): the matching rows.
SubscriptionsOf(user, course) ==
    {i \in 1..Len(subscriptions) :
        subscriptions[i] = [user |-> user, course |-> course]}

\* unique_together left out: every insert is accepted.
unique_together_dropped(user, course) == TRUE

\* unique_together = ('user', 'course'): the table accepts the insert of a
\* row for the pair.
unique_together(user, course) == SubscriptionsOf(user, course) = {}

\* SubscriptionView.post up to the lookup of get_or_create: 400 without a
\* course_id, 404 when there is no such course, 400 when the user has the
\* subscription; else get_or_create goes on to create it.
PostSubscription(p, user, course_id) ==
    /\ Free(p)
    /\ LET req == [Request("subscribe", user) EXCEPT !.course = course_id]
       IN /\ response' =
                 IF course_id = NoArg
                 THEN ErrorResponse(req, 400, <<"no course_id", "">>)
                 ELSE IF course_id \notin Courses
                 THEN ErrorResponse(req, 404, <<"no course", "">>)
                 ELSE IF SubscriptionsOf(user, course_id) # {}
                 THEN ErrorResponse(req, 400, <<"subscribed", "">>)
                 ELSE NoResponse
          /\ proc' = IF /\ course_id \in Courses
                        /\ SubscriptionsOf(user, course_id) = {}
                     THEN [proc EXCEPT ![p] = [req EXCEPT !.pc = "create_subscription"]]
                     ELSE proc
    /\ UNCHANGED <<payments, stripe, others>>

\* get_or_create's insert: the row is created and the view answers 201, or
\* the table refuses it (IntegrityError) and get_or_create looks again.
CreateSubscription(p) ==
    /\ proc[p].pc = "create_subscription"
    /\ IF unique_together(proc[p].user, proc[p].course)
       THEN /\ subscriptions' = Append(subscriptions,
                    [user |-> proc[p].user, course |-> proc[p].course])
            /\ proc' = [proc EXCEPT ![p] = IdleProc]
            /\ response' = [Response(proc[p], 201) EXCEPT !.success = TRUE]
       ELSE /\ subscriptions' = subscriptions
            /\ proc' = [proc EXCEPT ![p].pc = "get_subscription"]
            /\ response' = NoResponse
    /\ UNCHANGED <<payments, stripe, lessons, moderators, accounts, task_result>>

\* get_or_create after the IntegrityError: the row is there, created is
\* False and the view answers 400; or it is gone again, the IntegrityError
\* is raised and the request ends 500.
GetSubscriptionAgain(p) ==
    /\ proc[p].pc = "get_subscription"
    /\ proc' = [proc EXCEPT ![p] = IdleProc]
    /\ response' =
           IF SubscriptionsOf(proc[p].user, proc[p].course) # {}
           THEN ErrorResponse(proc[p], 400, <<"subscribed", "">>)
           ELSE ErrorResponse(proc[p], 500, <<"IntegrityError", "">>)
    /\ UNCHANGED <<payments, stripe, others>>

\* SubscriptionView.delete: 400 without a course_id; the user's rows for
\* the course are deleted, 204 when there was one, else 404.
DeleteSubscription(p, user, course_id) ==
    /\ Free(p)
    /\ LET req == [Request("unsubscribe", user) EXCEPT !.course = course_id]
           deleted == SubscriptionsOf(user, course_id)
           kept(row) == row # [user |-> user, course |-> course_id]
       IN /\ response' =
                 IF course_id = NoArg
                 THEN ErrorResponse(req, 400, <<"no course_id", "">>)
                 ELSE IF deleted # {}
                 THEN [Response(req, 204) EXCEPT !.success = TRUE]
                 ELSE ErrorResponse(req, 404, <<"no subscription", "">>)
          /\ subscriptions' = IF course_id = NoArg
                              THEN subscriptions
                              ELSE SelectSeq(subscriptions, kept)
    /\ UNCHANGED <<payments, stripe, proc, lessons, moderators, accounts,
                   task_result>>

SubscriptionNext ==
    \/ \E p \in Procs, u \in Users, c \in CourseArgs : PostSubscription(p, u, c)
    \/ \E p \in Procs : CreateSubscription(p)
    \/ \E p \in Procs : GetSubscriptionAgain(p)
    \/ \E p \in Procs, u \in Users, c \in CourseArgs : DeleteSubscription(p, u, c)

SubscriptionSpec == Init /\ [][SubscriptionNext]_vars

\* ------------------------------------------------------ /lessons/, /lessons/<pk>/
\* Titles of a lesson.
Titles == {"t1", "t2"}

\* IsModerator.has_permission: the user is in the group of moderators.
IsModerator(user) == user \in moderators

\* A user joins or leaves the group of moderators (done by an
\* administrator).
SetModerator(user) ==
    /\ moderators' = IF user \in moderators
                     THEN moderators \ {user}
                     ELSE moderators \cup {user}
    /\ response' = NoResponse
    /\ UNCHANGED <<payments, stripe, proc, subscriptions, lessons, accounts,
                   task_result>>

\* A request on lessons: its method, its user, the lesson id of the URL
\* and the fields of its body.
LessonRequest(method, user, l, title, owner) ==
    [op |-> "lesson", method |-> method, user |-> user, lesson |-> l,
     title |-> title, owner |-> owner]

\* LessonListCreateView POST: forbidden to moderators; the lesson is created
\* with the requesting user as owner.
PostLesson(user, title) ==
    /\ LET req == LessonRequest("POST", user, 0, title, user)
           free == {l \in LessonIds : lessons[l] = NoLesson}
       IN IF IsModerator(user)
          THEN /\ response' = ErrorResponse(req, 403, <<"moderator", "">>)
               /\ lessons' = lessons
          ELSE /\ free # {}
               /\ LET l == CHOOSE k \in free : \A j \in free : k <= j
                  IN /\ lessons' = [lessons EXCEPT
                            ![l] = <<[owner |-> user, title |-> title]>>]
                     /\ response' = [Response([req EXCEPT !.lesson = l], 201)
                                        EXCEPT !.success = TRUE]
    /\ UNCHANGED <<payments, stripe, proc, subscriptions, moderators, accounts,
                   task_result>>

\* get_object with the moderators allowed to delete.
get_object_moderator_deletes(method, user, l) ==
    IF lessons[l] = NoLesson THEN 404
    ELSE IF IsModerator(user) \/ lessons[l][1].owner = user THEN 200
    ELSE 403

\* LessonRetrieveUpdateDestroyView.get_object: 404 when there is no such
\* lesson, 403 when the check of the method fails, else 200 (the object).
get_object(method, user, l) ==
    IF lessons[l] = NoLesson THEN 404
    ELSE IF method = "DELETE"
    THEN (IF IsModerator(user) THEN 403
          ELSE IF lessons[l][1].owner # user THEN 403
          ELSE 200)
    ELSE (IF ~(IsModerator(user) \/ lessons[l][1].owner = user) THEN 403
          ELSE 200)

\* GET /lessons/<pk>/: the lesson, nothing changed.
GetLesson(user, l) ==
    /\ LET req == LessonRequest("GET", user, l, NoArg, NoArg)
           code == get_object("GET", user, l)
       IN response' = IF code = 200
                      THEN [Response(req, 200) EXCEPT !.success = TRUE,
                                                      !.payment = lessons[l]]
                      ELSE ErrorResponse(req, code, <<"lesson", "">>)
    /\ UNCHANGED <<payments, stripe, proc, others>>

\* PUT /lessons/<pk>/: the fields of the body, the owner among them
\* (LessonSerializer has fields = '__all__'), are saved.
PutLesson(user, l, title, owner) ==
    /\ LET req == LessonRequest("PUT", user, l, title, owner)
           code == get_object("PUT", user, l)
       IN IF code = 200
          THEN /\ lessons' = [lessons EXCEPT
                      ![l] = <<[owner |-> owner, title |-> title]>>]
               /\ response' = [Response(req, 200) EXCEPT !.success = TRUE]
          ELSE /\ lessons' = lessons
               /\ response' = ErrorResponse(req, code, <<"lesson", "">>)
    /\ UNCHANGED <<payments, stripe, proc, subscriptions, moderators, accounts,
                   task_result>>

\* DELETE /lessons/<pk>/: the lesson is deleted, 204.
DeleteLesson(user, l) ==
    /\ LET req == LessonRequest("DELETE", user, l, NoArg, NoArg)
           code == get_object("DELETE", user, l)
       IN IF code = 200
          THEN /\ lessons' = [lessons EXCEPT ![l] = NoLesson]
               /\ response' = [Response(req, 204) EXCEPT !.success = TRUE]
          ELSE /\ lessons' = lessons
               /\ response' = ErrorResponse(req, code, <<"lesson", "">>)
    /\ UNCHANGED <<payments, stripe, proc, subscriptions, moderators, accounts,
                   task_result>>

LessonNext ==
    \/ \E u \in Users : SetModerator(u)
    \/ \E u \in Users, t \in Titles : PostLesson(u, t)
    \/ \E u \in Users, l \in LessonIds : GetLesson(u, l)
    \/ \E u \in Users, l \in LessonIds, t \in Titles, o \in Users :
           PutLesson(u, l, t, o)
    \/ \E u \in Users, l \in LessonIds : DeleteLesson(u, l)

LessonSpec == Init /\ [][LessonNext]_vars

\* ------------------------------------------------------- block_inactive_users
\* timedelta(days=30): the age of a login, in days, up to which a user
\* counts as having logged in lately.
InactiveDays == 30

\* The state after deployment with any of the users a superuser
\* (create_superuser).
AccountInit ==
    /\ payments = << >>
    /\ stripe = [n \in 1..MaxPayments |-> NoSession]
    /\ proc = [p \in Procs |-> IdleProc]
    /\ response = NoResponse
    /\ subscriptions = << >>
    /\ lessons = [l \in LessonIds |-> NoLesson]
    /\ moderators = {}
    /\ accounts \in [Users -> {NewAccount(TRUE), NewAccount(FALSE)}]
    /\ task_result = NoTaskResult

\* A user logs in: last_login becomes now, that is zero days old.
Login(user) ==
    /\ accounts[user].is_active
    /\ accounts' = [accounts EXCEPT ![user].last_login = 0]
    /\ UNCHANGED <<payments, stripe, proc, response, subscriptions, lessons,
                   moderators, task_result>>

\* A day passes: every login is a day older (ages beyond MaxAge are not
\* told apart). month_ago is computed once at the start of the task, so no
\* login grows older in the course of a run.
DayPasses ==
    /\ task_result.status \in {"none", "success"}
    /\ accounts' = [u \in Users |->
           IF accounts[u].last_login = Never
              \/ accounts[u].last_login >= MaxAge
           THEN accounts[u]
           ELSE [accounts[u] EXCEPT !.last_login = @ + 1]]
    /\ UNCHANGED <<payments, stripe, proc, response, subscriptions, lessons,
                   moderators, task_result>>

\* last_login__lt = month_ago: the login is more than 30 days old. The
\* comparison with NULL, a user who never logged in, is not true in SQL.
last_login__lt(account, days) ==
    /\ account.last_login # Never
    /\ account.last_login > days

\* The queryset inactive_users, evaluated on the table as it is.
inactive_users ==
    {u \in Users : /\ accounts[u].is_active
                   /\ ~accounts[u].is_superuser
                   /\ last_login__lt(accounts[u], InactiveDays)}

\* The task starts: inactive_users.count(). With a count of zero it returns
\* at once.
CountInactive ==
    /\ task_result.status \in {"none", "success"}
    /\ LET count == Cardinality(inactive_users)
       IN task_result' =
              IF count = 0
              THEN [status |-> "success", blocked_count |-> 0,
                    blocked_users |-> {}]
              ELSE [status |-> "counted", blocked_count |-> count,
                    blocked_users |-> {}]
    /\ UNCHANGED <<payments, stripe, proc, response, subscriptions, lessons,
                   moderators, accounts>>

\* The loop over inactive_users, a query of its own, collects
\* blocked_users_info.
ListInactive ==
    /\ task_result.status = "counted"
    /\ task_result' = [task_result EXCEPT !.status = "listed",
                                          !.blocked_users = inactive_users]
    /\ UNCHANGED <<payments, stripe, proc, response, subscriptions, lessons,
                   moderators, accounts>>

\* inactive_users.update(is_active=False), a query of its own, and the
\* return of the result with blocked_count the count taken at the start.
UpdateInactive ==
    /\ task_result.status = "listed"
    /\ accounts' = [u \in Users |->
           IF u \in inactive_users
           THEN [accounts[u] EXCEPT !.is_active = FALSE]
           ELSE accounts[u]]
    /\ task_result' = [task_result EXCEPT !.status = "success"]
    /\ UNCHANGED <<payments, stripe, proc, response, subscriptions, lessons,
                   moderators>>

AccountNext ==
    \/ \E u \in Users : Login(u)
    \/ DayPasses
    \/ CountInactive
    \/ ListInactive
    \/ UpdateInactive

AccountSpec == AccountInit /\ [][AccountNext]_vars

\* ----------------------------------------------------------- properties
\* The ids of the rows of the table.
Rows == 1..Len(payments)

\* The last step answered a request.
Answered == response.code # 0

\* The request the last step answered, as its last step began.
Req == response.request[1]

\* The step is worker p's last one at `pc`, on the row i.
Saves(p, pc, i) ==
    /\ proc[p].pc = pc
    /\ proc[p].pid = i
    /\ proc'[p].pc = "idle"

\* C1 as claimed: once the persisted status of a payment is PAID or FAILED,
\* no step changes it.
C1_TerminalNeverLeft ==
    [][\A i \in Rows :
          payments[i].status \in {PAID, FAILED}
              => payments'[i].status = payments[i].status]_vars

\* C1 as amended: a persisted status PAID or FAILED is changed only on a
\* payment that has a session id, and only by the save of CheckStatus, to
\* the status the remote payment_status maps to (paid -> PAID, unpaid ->
\* PENDING, other -> FAILED), or by the save of HandleSuccessRedirect, to
\* PAID; CreatePayment and HandleCancelRedirect never change it.
C1_TerminalLeftOnlyByReconciliation ==
    [][\A i \in Rows :
          (/\ payments[i].status \in {PAID, FAILED}
           /\ payments'[i].status # payments[i].status)
          => /\ payments[i].stripe_session_id # Absent
             /\ \E p \in Procs :
                  \/ /\ Saves(p, "update_status", i)
                     /\ LET st == proc[p].result.payment_status
                        IN payments'[i].status =
                               CASE st = "paid" -> PAID
                                 [] st = "unpaid" -> PENDING
                                 [] OTHER -> FAILED
                  \/ /\ Saves(p, "mark_paid", i)
                     /\ payments'[i].status = PAID]_vars

\* C1's case: CheckStatus loaded a PAID payment and left it PENDING.
C1_Witness ==
    /\ Answered
    /\ Req.op = "status"
    /\ response.code = 200
    /\ Req.payment[1].status = PAID
    /\ payments[Req.pid].status = PENDING

\* C2 as claimed: for every (user, course) pair at most one payment is
\* PAID.
C2_AtMostOnePaid ==
    \A i, j \in Rows :
        (/\ payments[i].user = payments[j].user
         /\ payments[i].course = payments[j].course
         /\ payments[i].status = PAID
         /\ payments[j].status = PAID) => i = j

\* C3: in every persisted row a price id comes with a product id, and a
\* session id with a price id and a product id.
C3_RemoteIdsInOrder ==
    \A i \in Rows :
        /\ payments[i].stripe_price_id # Absent
               => payments[i].stripe_product_id # Absent
        /\ payments[i].stripe_session_id # Absent
               => /\ payments[i].stripe_price_id # Absent
                  /\ payments[i].stripe_product_id # Absent

\* C3's case: a row with its session id persisted.
C3_Witness ==
    \E i \in Rows : payments[i].stripe_session_id # Absent

\* C4: within CreatePayment each step is persisted before the next remote
\* call: when CreateProduct is about to be called the row exists and is
\* PENDING, when CreatePrice is about to be called the stored row carries
\* the product id returned, and when CreateCheckoutSession is about to be
\* called the stored row carries the price id returned.
C4_PersistedBeforeNextCall ==
    \A p \in Procs :
        /\ proc[p].pc = "create_product"
               => /\ proc[p].pid \in Rows
                  /\ payments[proc[p].pid].status = PENDING
        /\ proc[p].pc = "create_price"
               => /\ proc[p].result.id # Absent
                  /\ payments[proc[p].pid].stripe_product_id = proc[p].result.id
        /\ proc[p].pc = "create_session"
               => /\ proc[p].result.id # Absent
                  /\ payments[proc[p].pid].stripe_price_id = proc[p].result.id

\* C4's case: a worker about to call CreateCheckoutSession.
C4_Witness ==
    \E p \in Procs : proc[p].pc = "create_session"

\* The remote step at which a CreatePayment that answered with an error
\* failed: 1 CreateProduct, 2 CreatePrice, 3 CreateCheckoutSession; 0 when
\* the last step answered no such request.
FailedStep ==
    IF Answered /\ Req.op = "create" /\ Req.pid # 0 /\ ~response.success
    THEN CASE response.error[1] = "product" -> 1
           [] response.error[1] = "price" -> 2
           [] response.error[1] = "session" -> 3
           [] OTHER -> 0
    ELSE 0

\* C5: when CreatePayment fails at remote step k it returns an error and
\* leaves the row FAILED with exactly the remote ids obtained before k:
\* none for k = 1, the product id for k = 2, the product and price ids for
\* k = 3; never a session id or a checkout URL.
C5_FailedWithIdsUpToStep ==
    FailedStep # 0 =>
        LET row == payments[Req.pid]
            k == FailedStep
        IN /\ response.code = 400
           /\ response.error[2] \in StripeErrors
           /\ Len(Req.calls) = k
           /\ row.status = FAILED
           /\ row.stripe_product_id =
                  IF k >= 2 THEN <<"prod", Req.pid>> ELSE Absent
           /\ row.stripe_price_id =
                  IF k >= 3 THEN <<"price", Req.pid>> ELSE Absent
           /\ row.stripe_session_id = Absent
           /\ row.payment_url = Absent

\* C5's case: CreatePayment failed at CreateCheckoutSession.
C5_Witness == FailedStep = 3

\* C6: when the three remote calls of CreatePayment succeed it returns
\* success, the row is PENDING with the product, price and session ids the
\* processor returned, and the checkout URL returned is the one the
\* processor gave for the session and the one persisted.
C6_ProvisionedPayment ==
    (Answered /\ Req.op = "create" /\ Req.calls =
         <<"create_product", "create_price", "create_checkout_session">>
              /\ Req.result.success)
    => LET row == payments[Req.pid]
       IN /\ response.code = 201
          /\ response.success
          /\ row.status = PENDING
          /\ row.stripe_product_id = <<"prod", Req.pid>>
          /\ row.stripe_price_id = <<"price", Req.pid>>
          /\ row.stripe_session_id = Req.result.id
          /\ Req.result.id = <<"cs", Req.pid>>
          /\ response.payment_url = Req.result.url
          /\ row.payment_url = response.payment_url
          /\ response.payment = <<row>>

\* C6's case: CreatePayment answered 201.
C6_Witness ==
    Answered /\ Req.op = "create" /\ response.code = 201

\* The step is the arrival, at worker p, of a CreatePayment request of
\* `user` for `course`: it is rejected at once or goes on to the insert.
Arrives(p, user, course) ==
    /\ proc[p].pc = "idle"
    /\ \/ /\ proc'[p].pc = "insert"
          /\ proc'[p].user = user
          /\ proc'[p].course = course
       \/ /\ proc'[p].pc = "idle"
          /\ response'.code # 0
          /\ response'.request[1].op = "create"
          /\ response'.request[1].user = user
          /\ response'.request[1].course = course

\* The step rejects a CreatePayment request: an error, no row created, no
\* remote call, the table and the processor unchanged.
Rejects ==
    /\ response'.code = 400
    /\ ~response'.success
    /\ response'.request[1].pid = 0
    /\ response'.request[1].calls = << >>
    /\ payments' = payments
    /\ stripe' = stripe

\* C7: CreatePayment requested by the owner of the course always fails: no
\* row is created, no remote call issued, the set of rows is unchanged.
C7_OwnerRejected ==
    [][\A p \in Procs, u \in Users, c \in Courses :
          (Arrives(p, u, c) /\ Owner[c] = u) => Rejects]_vars

\* C7's case: a request of a course's owner was rejected.
C7_Witness ==
    /\ Answered
    /\ Req.op = "create"
    /\ Owner[Req.course] = Req.user
    /\ response.error = <<"validation", "own course">>

\* C8: CreatePayment for a (user, course) pair that has a PAID payment
\* always fails: no row is created and no remote call issued.
C8_AlreadyPaidRejected ==
    [][\A p \in Procs, u \in Users, c \in Courses :
          (/\ Arrives(p, u, c)
           /\ \E i \in Rows : /\ payments[i].user = u
                              /\ payments[i].course = c
                              /\ payments[i].status = PAID)
          => Rejects]_vars

\* C8's case: a request was rejected because the pair has a PAID payment.
C8_Witness ==
    /\ Answered
    /\ Req.op = "create"
    /\ response.error = <<"validation", "already paid">>
    /\ \E i \in Rows : /\ payments[i].user = Req.user
                       /\ payments[i].course = Req.course
                       /\ payments[i].status = PAID

\* C9: HandleSuccessRedirect with the session id of an existing payment
\* answers 200 and leaves that payment PAID, whatever its status was, and
\* issues no processor call.
C9_SuccessRedirectMarksPaid ==
    (/\ Answered
     /\ Req.op = "success"
     /\ Req.session_id # Absent
     /\ \E i \in Rows : payments[i].stripe_session_id = Req.session_id)
    => /\ response.code = 200
       /\ Req.calls = << >>
       /\ Req.pid \in Rows
       /\ payments[Req.pid].stripe_session_id = Req.session_id
       /\ payments[Req.pid].status = PAID

\* C9's case: the redirect found the payment FAILED and left it PAID.
C9_Witness ==
    /\ Answered
    /\ Req.op = "success"
    /\ Req.payment # << >>
    /\ Req.payment[1].status = FAILED
    /\ payments[Req.pid].status = PAID

\* C10: CheckStatus on a payment with a session id, RetrieveSession
\* succeeding, persists the status the remote status alone decides: paid ->
\* PAID, with the payment intent of the response when it carries one;
\* unpaid -> PENDING; any other -> FAILED; and returns the persisted status.
C10_StatusFromRemote ==
    (Answered /\ Req.op = "status" /\ Req.calls = <<"retrieve_session">>
              /\ Req.result.success)
    => LET row == payments[Req.pid]
           st == Req.result.payment_status
       IN /\ response.code = 200
          /\ response.stripe_status = st
          /\ st = "paid" => row.status = PAID
          /\ (st = "paid" /\ Req.result.payment_intent # Absent)
                 => row.stripe_payment_intent_id = Req.result.payment_intent
          /\ st = "unpaid" => row.status = PENDING
          /\ st \notin {"paid", "unpaid"} => row.status = FAILED
          /\ response.payment # << >>
          /\ response.payment[1].status = row.status

\* C10's case: CheckStatus met a remote status that is neither paid nor
\* unpaid on a payment that was not FAILED.
C10_Witness ==
    /\ Answered
    /\ Req.op = "status"
    /\ Req.pc = "update_status"
    /\ Req.result.payment_status \notin {"paid", "unpaid"}
    /\ Req.payment[1].status # FAILED


\* C11: CheckStatus is idempotent: the row it persisted is the row a second
\* CheckStatus given the same remote response persists (same status, same
\* payment-intent id).
C11_CheckStatusIdempotent ==
    (Answered /\ Req.op = "status" /\ Req.calls = <<"retrieve_session">>
              /\ Req.result.success)
    => LET first == payments[Req.pid]
           second == updated_payment(first, Req.result)
       IN /\ second.status = first.status
          /\ second.stripe_payment_intent_id = first.stripe_payment_intent_id
          /\ second = first

\* C11's case: CheckStatus changed the status of a payment and stored the
\* payment intent of a paid session.
C11_Witness ==
    /\ Answered
    /\ Req.op = "status"
    /\ response.code = 200
    /\ Req.result.payment_status = "paid"
    /\ Req.result.payment_intent # Absent
    /\ Req.payment[1].status # PAID
    /\ payments[Req.pid].stripe_payment_intent_id = Req.result.payment_intent

\* C12: CheckStatus on a payment that has no session id answers with the
\* no-session error, has called no processor method, and leaves the row as
\* it loaded it.
C12_NoSessionNoCall ==
    (/\ Answered
     /\ Req.op = "status"
     /\ Req.payment # << >>
     /\ Req.payment[1].stripe_session_id = Absent)
    => /\ response.code = 400
       /\ ~response.success
       /\ response.error = <<"no session", "">>
       /\ Req.calls = << >>
       /\ payments[Req.pid] = Req.payment[1]

\* C12's case: CheckStatus met a payment that failed before its session was
\* created.
C12_Witness ==
    /\ Answered
    /\ Req.op = "status"
    /\ response.error = <<"no session", "">>
    /\ payments[Req.pid].status = FAILED
    /\ payments[Req.pid].stripe_product_id # Absent

\* C13 as claimed: a request whose last remote call failed (CreateProduct,
\* CreatePrice, CreateCheckoutSession or RetrieveSession) leaves its payment
\* persisted FAILED.
C13_RemoteFailureMarksFailed ==
    (Answered /\ Req.calls # << >> /\ ~Req.result.success)
    => payments[Req.pid].status = FAILED

\* The request the step answers is a CheckStatus naming no row of the table
\* or a HandleSuccessRedirect whose session id is missing or on no row.
UnknownTarget ==
    /\ response'.code # 0
    /\ LET req == response'.request[1]
       IN \/ /\ req.op = "status"
             /\ req.payment_id \notin 1..Len(payments)
          \/ /\ req.op = "success"
             /\ \/ req.session_id = Absent
                \/ \A i \in 1..Len(payments) :
                       payments[i].stripe_session_id # req.session_id

\* C14: CheckStatus with an unknown payment id and HandleSuccessRedirect
\* with an unknown or missing session id answer 404 (400 for the missing
\* session id), issue no processor call and leave every row and the
\* processor unchanged.
C14_UnknownTargetNoMutation ==
    [][UnknownTarget
       => LET req == response'.request[1]
          IN /\ ~response'.success
             /\ response'.code =
                    IF req.op = "success" /\ req.session_id = Absent
                    THEN 400 ELSE 404
             /\ req.calls = << >>
             /\ req.pid = 0
             /\ payments' = payments
             /\ stripe' = stripe]_vars

\* C14's case: a success redirect with a session id that no payment has,
\* while a payment is pending, was answered 404.
C14_Witness ==
    /\ Answered
    /\ Req.op = "success"
    /\ Req.session_id # Absent
    /\ response.code = 404
    /\ \E i \in Rows : payments[i].status = PENDING

\* C15: HandleCancelRedirect looks up no payment and changes nothing: it
\* answers 200 with every row and the processor unchanged; a PENDING payment
\* whose checkout session exists stays PENDING until the save of CheckStatus
\* or of HandleSuccessRedirect on it; and no row ever has a status other
\* than PENDING, PAID or FAILED.
C15_CancelChangesNothing ==
    /\ [](\A i \in Rows : payments[i].status \in PaymentStatus)
    /\ [][/\ (response'.code # 0 /\ response'.request[1].op = "cancel")
             => /\ response'.code = 200
                /\ response'.request[1].pid = 0
                /\ response'.request[1].payment = << >>
                /\ response'.request[1].calls = << >>
                /\ payments' = payments
                /\ stripe' = stripe
          /\ \A i \in Rows :
                (/\ payments[i].status = PENDING
                 /\ payments[i].stripe_session_id # Absent
                 /\ payments'[i].status # PENDING)
                => \E p \in Procs : \/ Saves(p, "update_status", i)
                                    \/ Saves(p, "mark_paid", i)]_vars

\* C15's case: a cancel redirect was answered while a payment with a
\* checkout session was pending.
C15_Witness ==
    /\ Answered
    /\ Req.op = "cancel"
    /\ \E i \in Rows : /\ payments[i].status = PENDING
                       /\ payments[i].stripe_session_id # Absent

\* C16: no step deletes a payment or changes its user, course or amount;
\* the table only grows.
C16_RowsKeptAndImmutable ==
    [][/\ Len(payments') >= Len(payments)
       /\ \A i \in Rows :
             /\ payments'[i].user = payments[i].user
             /\ payments'[i].course = payments[i].course
             /\ payments'[i].amount = payments[i].amount]_vars

\* C16's case: a payment was created, then saved again by CheckStatus.
C16_Witness ==
    /\ Answered
    /\ Req.op = "status"
    /\ response.code = 200
    /\ payments[Req.pid].status # Req.payment[1].status

\* The remote ids of a row: product, price, session and payment intent.
RemoteIds(row) ==
    <<row.stripe_product_id, row.stripe_price_id,
      row.stripe_session_id, row.stripe_payment_intent_id>>

\* C17 as claimed: a remote id persisted on a payment is never cleared or
\* replaced by a later write, in any interleaving of the requests.
C17_RemoteIdsNeverCleared ==
    [][\A i \in Rows : \A k \in 1..4 :
          RemoteIds(payments[i])[k] # Absent
              => RemoteIds(payments'[i])[k] = RemoteIds(payments[i])[k]]_vars

\* C18: a payment becomes PAID only through reconciliation: a row is
\* inserted PENDING, no step of CreatePayment stores PAID, and every change
\* of a stored status to PAID is the save of CheckStatus holding a session
\* result "paid" or the save of HandleSuccessRedirect.
C18_PaidOnlyByReconciliation ==
    [][/\ Len(payments') > Len(payments)
             => payments'[Len(payments')].status = PENDING
       /\ \A i \in Rows :
             (payments[i].status # PAID /\ payments'[i].status = PAID)
             => \E p \in Procs :
                   \/ /\ Saves(p, "update_status", i)
                      /\ proc[p].op = "status"
                      /\ proc[p].result.payment_status = "paid"
                   \/ /\ Saves(p, "mark_paid", i)
                      /\ proc[p].op = "success"
       /\ \A p \in Procs : \A i \in Rows :
             (proc[p].op = "create" /\ proc[p].pid = i)
             => payments'[i].status # PAID \/ payments[i].status = PAID]_vars

\* C18's case: CheckStatus, the processor reporting the session paid, made
\* a PENDING payment PAID.
C18_Witness ==
    /\ Answered
    /\ Req.op = "status"
    /\ Req.result.payment_status = "paid"
    /\ Req.payment[1].status = PENDING
    /\ payments[Req.pid].status = PAID

\* C19 as claimed: of two CreatePayment requests for the same (user,
\* course) pair that are in progress at the same time, at most one has
\* inserted a row.
C19_ConcurrentCreatesSerialized ==
    \A p, q \in Procs :
        (/\ p # q
         /\ proc[p].op = "create"
         /\ proc[q].op = "create"
         /\ proc[p].user = proc[q].user
         /\ proc[p].course = proc[q].course)
        => ~(proc[p].pid # 0 /\ proc[q].pid # 0)

\* C20: the unit amount create_price sends to the processor is amount * 100
\* truncated to an integer: 19.99 gives 1999, 0.004 and 0.005 give 0, and an
\* amount with at most two decimal places is converted exactly.
C20_AmountTruncatedToKopecks ==
    \A p \in Procs :
        (proc[p].pc = "price_result" /\ proc[p].result.success)
        => LET a == proc[p].amount
               k == proc[p].result.unit_amount
           IN /\ k >= 0
              /\ k * 1000 <= a * 100
              /\ a * 100 < (k + 1) * 1000
              /\ a = 19990 => k = 1999
              /\ a \in {4, 5} => k = 0
              /\ a % 10 = 0 => k * 10 = a

\* C20's case: a price was created for 0.005, where truncating and rounding
\* differ.
C20_Witness ==
    \E p \in Procs : /\ proc[p].pc = "price_result"
                     /\ proc[p].result.success
                     /\ proc[p].amount = 5
                     /\ proc[p].result.unit_amount = 0

\* C21 as claimed: POST /payments answers 201 with the payment and the
\* checkout URL when provisioning succeeds, 400 with an error when a
\* processor call fails, and 403 with an error when the requesting user
\* owns the course.
C21_PostPaymentsStatusCodes ==
    (Answered /\ Req.op = "create")
    => /\ (Req.calls = <<"create_product", "create_price",
                         "create_checkout_session">> /\ Req.result.success)
              => /\ response.code = 201
                 /\ response.payment = <<payments[Req.pid]>>
                 /\ response.payment_url = payments[Req.pid].payment_url
       /\ (Req.calls # << >> /\ ~Req.result.success)
              => /\ response.code = 400
                 /\ response.error[2] \in StripeErrors
       /\ Owner[Req.course] = Req.user
              => /\ response.code = 403
                 /\ response.error # << >>

\* C22: every started CreatePayment returns at last, and in the state it
\* returns in its payment is FAILED, or PENDING with the product id, the
\* price id, the session id and the checkout URL all set.
C22_CreateReturnsSettled ==
    /\ \A p \in Procs :
          (proc[p].op = "create" /\ proc[p].pc # "idle") ~> (proc[p].pc = "idle")
    /\ []((Answered /\ Req.op = "create" /\ Req.pid # 0)
          => LET row == payments[Req.pid]
             IN \/ row.status = FAILED
                \/ /\ row.status = PENDING
                   /\ row.stripe_product_id # Absent
                   /\ row.stripe_price_id # Absent
                   /\ row.stripe_session_id # Absent
                   /\ row.payment_url # Absent)

\* C22's case: a CreatePayment returned with an error after its price was
\* created.
C22_Witness ==
    /\ Answered
    /\ Req.op = "create"
    /\ Len(Req.calls) = 3
    /\ ~response.success
    /\ payments[Req.pid].status = FAILED

\* The remote calls of one CreatePayment, in their order.
CreateCalls == <<"create_product", "create_price", "create_checkout_session">>

\* C23: one CreatePayment issues its remote calls in the order
\* CreateProduct, CreatePrice, CreateCheckoutSession, each at most once, and
\* no call after one that failed.
C23_CallsInOrderNoRetry ==
    /\ [](\A p \in Procs :
             proc[p].op = "create"
             => /\ Len(proc[p].calls) <= 3
                /\ proc[p].calls = SubSeq(CreateCalls, 1, Len(proc[p].calls)))
    /\ []((Answered /\ Req.op = "create")
             => /\ Len(Req.calls) <= 3
                /\ Req.calls = SubSeq(CreateCalls, 1, Len(Req.calls)))
    /\ [][\A p \in Procs :
             (/\ proc[p].op = "create"
              /\ proc[p].calls # << >>
              /\ ~proc[p].result.success)
             => proc'[p].calls \in {proc[p].calls, << >>}]_vars

\* C23's case: a CreatePayment's second call failed and it returned having
\* made two calls.
C23_Witness ==
    /\ Answered
    /\ Req.op = "create"
    /\ Req.calls = <<"create_product", "create_price">>
    /\ ~Req.result.success

\* C24: every CheckStatus on a payment that has a session id issues exactly
\* one RetrieveSession, and the status it persists is decided by that
\* response alone (paid -> PAID, unpaid -> PENDING, other -> FAILED),
\* whatever status the payment had.
C24_OneRetrievePerCheck ==
    /\ \A p \in Procs :
          proc[p].op = "status"
          => /\ Len(proc[p].calls) <= 1
             /\ proc[p].pc = "update_status" <=> proc[p].calls # << >>
    /\ (/\ Answered
        /\ Req.op = "status"
        /\ Req.payment # << >>
        /\ Req.payment[1].stripe_session_id # Absent)
       => /\ Req.calls = <<"retrieve_session">>
          /\ Req.result.success
                => payments[Req.pid].status =
                       CASE Req.result.payment_status = "paid" -> PAID
                         [] Req.result.payment_status = "unpaid" -> PENDING
                         [] OTHER -> FAILED

\* C24's case: CheckStatus found a PAID payment whose session the processor
\* reports unpaid, and persisted PENDING.
C24_Witness ==
    /\ Answered
    /\ Req.op = "status"
    /\ Req.calls = <<"retrieve_session">>
    /\ Req.result.payment_status = "unpaid"
    /\ Req.payment[1].status = PAID
    /\ stripe[Req.pid] = "unpaid"
    /\ payments[Req.pid].status = PENDING

\* C25: a payment that CreatePayment left FAILED, without a session id,
\* stays FAILED: no later step changes the row, whatever CheckStatus and
\* HandleSuccessRedirect requests are made.
C25_UnprovisionedFailedStays ==
    [][\A i \in Rows :
          (/\ payments[i].status = FAILED
           /\ payments[i].stripe_session_id = Absent)
          => payments'[i] = payments[i]]_vars

\* C25's case: CheckStatus was refused on a FAILED payment without a
\* session id.
C25_Witness ==
    /\ Answered
    /\ Req.op = "status"
    /\ Req.payment # << >>
    /\ Req.payment[1].status = FAILED
    /\ Req.payment[1].stripe_session_id = Absent
    /\ response.code = 400
    /\ payments[Req.pid].status = FAILED

\* C26 as claimed: a CheckStatus that read "unpaid" never overwrites the
\* PAID written by a CheckStatus that read "paid": when the last step was
\* the save of such a CheckStatus, the save of a CheckStatus holding "unpaid"
\* for the same payment leaves it PAID.
C26_PaidNotOverwrittenByStaleCheck ==
    [][\A p \in Procs : \A i \in Rows :
          (/\ Answered
           /\ Req.op = "status"
           /\ Req.pid = i
           /\ response.code = 200
           /\ Req.result.payment_status = "paid"
           /\ payments[i].status = PAID
           /\ Saves(p, "update_status", i)
           /\ proc[p].result.payment_status = "unpaid")
          => payments'[i].status = PAID]_vars

\* C27: GET /payments/{id}/status for a payment of another user answers
\* 404, issues no processor call and changes no payment; and CheckStatus
\* is only ever run on a payment for its own user.
C27_StatusOnlyForOwner ==
    /\ [][(/\ response'.code # 0
           /\ response'.request[1].op = "status"
           /\ response'.request[1].payment_id \in 1..Len(payments)
           /\ payments[response'.request[1].payment_id].user
                  # response'.request[1].user)
          => /\ response'.code = 404
             /\ response'.request[1].calls = << >>
             /\ response'.request[1].pid = 0
             /\ payments' = payments
             /\ stripe' = stripe]_vars
    /\ [](\A p \in Procs :
             (proc[p].op = "status" /\ proc[p].pid # 0)
             => payments[proc[p].pid].user = proc[p].user)

\* C27's case: another user asked for the status of a payment that has a
\* checkout session and was answered 404.
C27_Witness ==
    /\ Answered
    /\ Req.op = "status"
    /\ response.code = 404
    /\ Req.payment_id \in Rows
    /\ payments[Req.payment_id].user # Req.user
    /\ payments[Req.payment_id].stripe_session_id # Absent

\* The step answers a request `op` of `user` for the course `course`.
AnswersSubscription(op, user, course) ==
    /\ response'.code # 0
    /\ response'.request[1].op = op
    /\ response'.request[1].user = user
    /\ response'.request[1].course = course

\* C28: there is never more than one Subscription per (user, course) pair;
\* a subscribe request for a course answered while the user has no
\* subscription creates it and is answered 201 (unless its own insert was
\* refused before), one answered while the user has it is answered 400 and
\* creates nothing; an unsubscribe request answered while the user has it
\* removes it and is answered 204, else it is answered 404 and changes
\* nothing.
C28_OneSubscriptionPerPair ==
    /\ [](\A u \in Users, c \in Courses :
             Cardinality(SubscriptionsOf(u, c)) <= 1)
    /\ [][\A u \in Users, c \in Courses :
          LET had == SubscriptionsOf(u, c) # {}
              has == Cardinality({i \in 1..Len(subscriptions') :
                         subscriptions'[i] = [user |-> u, course |-> c]})
          IN /\ (AnswersSubscription("subscribe", u, c) /\ had)
                    => /\ response'.code = 400
                       /\ subscriptions' = subscriptions
             /\ (/\ AnswersSubscription("subscribe", u, c)
                 /\ ~had
                 /\ response'.request[1].pc # "get_subscription")
                    => /\ response'.code = 201
                       /\ has = 1
                       /\ Len(subscriptions') = Len(subscriptions) + 1
             /\ (AnswersSubscription("unsubscribe", u, c) /\ had)
                    => /\ response'.code = 204
                       /\ has = 0
                       /\ Len(subscriptions') = Len(subscriptions) - 1
             /\ (AnswersSubscription("unsubscribe", u, c) /\ ~had)
                    => /\ response'.code = 404
                       /\ subscriptions' = subscriptions]_vars

\* C28's case: a second subscribe request of a subscribed user was
\* answered 400 while another user is subscribed to the course too.
C28_Witness ==
    /\ Answered
    /\ Req.op = "subscribe"
    /\ response.code = 400
    /\ Req.course \in Courses
    /\ Cardinality(SubscriptionsOf(Req.user, Req.course)) = 1
    /\ \E u \in Users : u # Req.user /\ SubscriptionsOf(u, Req.course) # {}

\* The step answers a request `method` of `user` on the lesson l, which
\* exists.
AnswersLesson(method, user, l) ==
    /\ lessons[l] # NoLesson
    /\ response'.code # 0
    /\ response'.request[1].op = "lesson"
    /\ response'.request[1].method = method
    /\ response'.request[1].user = user
    /\ response'.request[1].lesson = l

\* C29: a lesson is retrieved or updated only by its owner or a moderator
\* and deleted only by its owner when not a moderator: a request of any
\* other user is answered 403 and leaves the lesson as it is, and so is a
\* moderator's delete request.
C29_LessonAccess ==
    [][\A u \in Users, l \in LessonIds :
          LET owns == lessons[l][1].owner = u
              mod == IsModerator(u)
          IN /\ \A m \in {"GET", "PUT", "DELETE"} :
                   (AnswersLesson(m, u, l) /\ ~owns /\ ~mod)
                   => /\ response'.code = 403
                      /\ lessons' = lessons
             /\ (AnswersLesson("DELETE", u, l) /\ mod)
                   => /\ response'.code = 403
                      /\ lessons' = lessons
             /\ \A m \in {"GET", "PUT"} :
                   (AnswersLesson(m, u, l) /\ response'.code = 200)
                   => owns \/ mod
             /\ (AnswersLesson("DELETE", u, l) /\ lessons'[l] = NoLesson)
                   => owns /\ ~mod
             /\ (lessons[l] # NoLesson /\ lessons'[l] # lessons[l])
                   => /\ response'.code # 0
                      /\ response'.request[1].op = "lesson"
                      /\ response'.request[1].lesson = l
                      /\ response'.request[1].method \in {"PUT", "DELETE"}
                      /\ response'.success]_vars

\* C29's case: a moderator who owns the lesson asked to delete it and was
\* answered 403, the lesson still there.
C29_Witness ==
    /\ Answered
    /\ Req.op = "lesson"
    /\ Req.method = "DELETE"
    /\ response.code = 403
    /\ lessons[Req.lesson] # NoLesson
    /\ lessons[Req.lesson][1].owner = Req.user
    /\ Req.user \in moderators

\* The step ends a run of block_inactive_users.
TaskReturns ==
    /\ task_result'.status = "success"
    /\ task_result' # task_result

\* The users the step deactivates.
Deactivated == {u \in Users : accounts[u].is_active /\ ~accounts'[u].is_active}

\* C30: block_inactive_users deactivates exactly the active users, not
\* superusers, who never logged in or whose last login is more than 30 days
\* old; no superuser and no user who logged in within the last 30 days is
\* deactivated, and blocked_count is the number of users deactivated.
C30_BlocksExactlyInactive ==
    [][/\ TaskReturns
          => /\ Deactivated =
                    {u \in Users :
                        /\ accounts[u].is_active
                        /\ ~accounts[u].is_superuser
                        /\ \/ accounts[u].last_login = Never
                           \/ accounts[u].last_login > InactiveDays}
             /\ task_result'.blocked_count = Cardinality(Deactivated)
       /\ \A u \in Deactivated :
             /\ ~accounts[u].is_superuser
             /\ accounts[u].last_login = Never
                \/ accounts[u].last_login > InactiveDays]_vars

====
